---- MODULE Spec2Model ----
(***************************************************************************)
(* A model of basic.py: run(fn, text) drives Lexer.make_tokens over the    *)
(* text and then Parser.parse over the tokens.  The lexer is modelled one  *)
(* loop iteration per step, the recursive-descent parser as an explicit    *)
(* call stack with one step per call, return and loop iteration.           *)
(***************************************************************************)
EXTENDS Integers, Sequences, FiniteSets, TLC

(* ------------------------------------------------------------------ *)
(* Bounds of the model                                                  *)
(* ------------------------------------------------------------------ *)

\* longest text drawn exhaustively over Alphabet
MaxLen == 3

\* most lexemes in a text drawn exhaustively over Lexemes
MaxToks == 4

(* ------------------------------------------------------------------ *)
(* Constants of the program                                             *)
(* ------------------------------------------------------------------ *)

DIGITS == {"0", "1", "2", "3", "4", "5", "6", "7", "8", "9"}

TT_INT == "INT"
TT_FLOAT == "FLOAT"
TT_PLUS == "PLUS"
TT_MINUS == "MINUS"
TT_MUL == "MUL"
TT_DIV == "DIV"
TT_LPAREN == "LPAREN"
TT_RPAREN == "RPAREN"
TT_EOF == "EOF"

\* Python's None, for a node, an error, a value, an attribute never set
None == <<>>

\* Python's None, for current_char
NoChar == ""

(* ------------------------------------------------------------------ *)
(* Inputs                                                               *)
(* ------------------------------------------------------------------ *)

\* characters of the exhaustively drawn texts: two digits, the dot, the six
\* single-character tokens, both blanks, and two characters the lexer rejects
Alphabet ==
    {"1", "2", ".", "+", "-", "*", "/", "(", ")", " ", "\t", "a", "\n"}

AllTexts == UNION {[1..n -> Alphabet] : n \in 0..MaxLen}

\* one lexeme per token kind; a number starts with a blank so that two
\* numbers in a row stay two tokens
Lexemes ==
    {<<" ", "1">>, <<" ", "1", ".", "2">>, <<"+">>, <<"-">>, <<"*">>,
     <<"/">>, <<"(">>, <<")">>}

RECURSIVE Flatten(_)
Flatten(ss) == IF ss = <<>> THEN <<>> ELSE Head(ss) \o Flatten(Tail(ss))

TokTexts == {Flatten(ss) : ss \in UNION {[1..n -> Lexemes] : n \in 0..MaxToks}}

\* the texts the specification of the program names
Examples ==
    {<<"2", " ", "+", " ", "3", " ", "*", " ", "4">>,
     <<"8", " ", "-", " ", "3", " ", "-", " ", "2">>,
     <<"(", "2", " ", "+", " ", "3", ")", " ", "*", " ", "4">>,
     <<"-", "-", "5">>,
     <<"(", "1", " ", "+", " ", "2">>,
     <<"1", " ", "+", " ", "2", " ", "3">>,
     <<"1", ".", "2", ".", "3">>,
     <<"1", "0", ".", "5", "0">>,
     <<"1", " ", "+", " ", "a">>}

Texts == AllTexts \cup TokTexts \cup Examples

(* ------------------------------------------------------------------ *)
(* State                                                                *)
(* ------------------------------------------------------------------ *)

VARIABLES
    text,          \* run's argument text, a sequence of characters
    pc,            \* where run is
    pos,           \* Lexer.pos
    current_char,  \* Lexer.current_char
    tokens,        \* make_tokens' list, then run's tokens
    lex_error,     \* the error make_tokens returned
    num_str,       \* make_number's num_str
    dot_count,     \* make_number's dot_count
    tok_idx,       \* Parser.tok_idx
    current_tok,   \* Parser.current_tok: the position in tokens of the token
                   \* it refers to, 0 while the attribute is not set
    stack,         \* the parser's calls, innermost last
    ret,           \* the ParserResult the last finished call returned
    result,        \* what run returned: (ast.node, ast.error)
    exception,     \* the exception that ended run, if one did
    first_error,   \* history: the first Error object constructed
    built          \* history: UnaryOpNode and BinOpNode objects constructed

lexvars == <<pos, current_char, tokens, lex_error, num_str, dot_count>>
parsevars == <<tok_idx, current_tok, stack, ret>>
vars == <<text, pc, pos, current_char, tokens, lex_error, num_str, dot_count,
          tok_idx, current_tok, stack, ret, result, exception, first_error,
          built>>

(* ------------------------------------------------------------------ *)
(* Position                                                             *)
(* ------------------------------------------------------------------ *)

Position(idx, ln, col) == [idx |-> idx, ln |-> ln, col |-> col]

\* Position.advance
PosAdvance(p, current_char_) ==
    IF current_char_ = "\n"
    THEN Position(p.idx + 1, p.ln + 1, 0)
    ELSE Position(p.idx + 1, p.ln, p.col + 1)

\* Position.copy: a new object with the same fields
PosCopy(p) == Position(p.idx, p.ln, p.col)

(* ------------------------------------------------------------------ *)
(* Token and Error                                                      *)
(* ------------------------------------------------------------------ *)

\* Token(type_, value): no position attribute is set
TokenValue(type_, value) ==
    [type |-> type_, value |-> value, pos_start |-> None, pos_end |-> None]

\* Token(type_, pos_start=p): start is a copy, end a copy advanced over
\* self.value, which is None and so no newline
TokenAt(type_, p) ==
    [type |-> type_, value |-> None,
     pos_start |-> <<PosCopy(p)>>,
     pos_end |-> <<PosAdvance(PosCopy(p), NoChar)>>]

Error(pos_start, pos_end, error_name, details) ==
    [pos_start |-> pos_start, pos_end |-> pos_end,
     error_name |-> error_name, details |-> details]

IllegalCharError(pos_start, pos_end, detail) ==
    Error(pos_start, pos_end, "Illegal Character", detail)

InvalidSyntaxError(pos_start, pos_end, detail) ==
    Error(pos_start, pos_end, "Invalid Syntax", detail)

(* ------------------------------------------------------------------ *)
(* Number conversion                                                    *)
(* ------------------------------------------------------------------ *)

DigitValue(c) ==
    CASE c = "0" -> 0 [] c = "1" -> 1 [] c = "2" -> 2 [] c = "3" -> 3
      [] c = "4" -> 4 [] c = "5" -> 5 [] c = "6" -> 6 [] c = "7" -> 7
      [] c = "8" -> 8 [] c = "9" -> 9

\* int(s) for a string of decimal digits
RECURSIVE IntOf(_)
IntOf(s) ==
    IF s = <<>> THEN 0
    ELSE 10 * IntOf(SubSeq(s, 1, Len(s) - 1)) + DigitValue(s[Len(s)])

RECURSIVE Pow10(_)
Pow10(n) == IF n = 0 THEN 1 ELSE 10 * Pow10(n - 1)

\* m / 10^e without trailing zeros in the fraction
RECURSIVE Normalize(_, _)
Normalize(m, e) ==
    IF e > 0 /\ m % 10 = 0 THEN Normalize(m \div 10, e - 1) ELSE <<m, e>>

\* float(s) for digits with one dot: the decimal m / 10^e as <<"float", m, e>>
FloatOf(s) ==
    LET d == CHOOSE i \in 1..Len(s) : s[i] = "."
        whole == SubSeq(s, 1, d - 1)
        frac == SubSeq(s, d + 1, Len(s))
        n == Normalize(IntOf(whole) * Pow10(Len(frac)) + IntOf(frac), Len(frac))
    IN <<"float", n[1], n[2]>>

(* ------------------------------------------------------------------ *)
(* Lexer                                                                *)
(* ------------------------------------------------------------------ *)

\* text[idx] when idx < len(text), else None (Lexer.advance)
CharAt(t, idx) == IF idx < Len(t) THEN t[idx + 1] ELSE NoChar

\* the number branch of make_tokens, taken on a dot as well
StartsNumberOrDot(c) == c \in DIGITS \cup {"."}

\* the number branch of make_tokens: current_char in DIGITS
StartsNumber(c) == c \in DIGITS

\* the six single-character branches of make_tokens
SingleCharType(c) ==
    CASE c = "+" -> TT_PLUS [] c = "-" -> TT_MINUS [] c = "*" -> TT_MUL
      [] c = "/" -> TT_DIV [] c = "(" -> TT_LPAREN [] c = ")" -> TT_RPAREN

IsSingleChar(c) == c \in {"+", "-", "*", "/", "(", ")"}

IsBlank(c) == c \in {" ", "\t"}

\* the start of an IllegalCharError, were it the live cursor and not a copy
ErrorStartAliased(before, after) == after

\* the start of an IllegalCharError: self.pos.copy(), taken before advance
ErrorStart(before, after) == PosCopy(before)

\* run(fn, text) starts: Lexer.__init__ and the head of make_tokens
LexerInit ==
    /\ pc = "run"
    /\ pos' = PosAdvance(Position(-1, 0, -1), NoChar)
    /\ current_char' = CharAt(text, pos'.idx)
    /\ tokens' = <<>>
    /\ pc' = "make_tokens"
    /\ UNCHANGED <<text, lex_error, num_str, dot_count, parsevars, result,
                   exception, first_error, built>>

\* Lexer.advance
LexerAdvance ==
    /\ pos' = PosAdvance(pos, current_char)
    /\ current_char' = CharAt(text, pos'.idx)

\* the blank branch of make_tokens without its self.advance()
BlankNotSkipped(p, c) == p

\* the blank branch of make_tokens: self.advance() moves the cursor on
BlankSkipped(p, c) == PosAdvance(p, c)

\* a blank or a tab is skipped
SkipBlank ==
    /\ pc = "make_tokens"
    /\ current_char # NoChar
    /\ IsBlank(current_char)
    /\ pos' = BlankSkipped(pos, current_char)
    /\ current_char' = CharAt(text, pos'.idx)
    /\ UNCHANGED <<text, pc, tokens, lex_error, num_str, dot_count, parsevars,
                   result, exception, first_error, built>>

\* make_tokens calls make_number
MakeNumberCall ==
    /\ pc = "make_tokens"
    /\ current_char # NoChar
    /\ ~IsBlank(current_char)
    /\ StartsNumber(current_char)
    /\ num_str' = <<>>
    /\ dot_count' = 0
    /\ pc' = "make_number"
    /\ UNCHANGED <<text, pos, current_char, tokens, lex_error, parsevars,
                   result, exception, first_error, built>>

InNumber == current_char # NoChar /\ current_char \in DIGITS \cup {"."}

\* one iteration of make_number's loop that does not break
MakeNumberStep ==
    /\ pc = "make_number"
    /\ InNumber
    /\ ~(current_char = "." /\ dot_count = 1)
    /\ dot_count' = IF current_char = "." THEN dot_count + 1 ELSE dot_count
    /\ num_str' = Append(num_str, current_char)
    /\ LexerAdvance
    /\ UNCHANGED <<text, pc, tokens, lex_error, parsevars, result, exception,
                   first_error, built>>

\* make_number's loop ends (its condition fails, or it breaks on a second
\* dot) and the token is appended
MakeNumberReturn ==
    /\ pc = "make_number"
    /\ ~InNumber \/ (current_char = "." /\ dot_count = 1)
    /\ tokens' = Append(tokens,
                    IF dot_count = 0
                    THEN TokenValue(TT_INT, <<<<"int", IntOf(num_str)>>>>)
                    ELSE TokenValue(TT_FLOAT, <<FloatOf(num_str)>>))
    /\ pc' = "make_tokens"
    /\ UNCHANGED <<text, pos, current_char, lex_error, num_str, dot_count,
                   parsevars, result, exception, first_error, built>>

\* one of + - * / ( ) becomes a token
SingleCharToken ==
    /\ pc = "make_tokens"
    /\ current_char # NoChar
    /\ ~IsBlank(current_char)
    /\ ~StartsNumber(current_char)
    /\ IsSingleChar(current_char)
    /\ tokens' = Append(tokens, TokenAt(SingleCharType(current_char), pos))
    /\ LexerAdvance
    /\ UNCHANGED <<text, pc, lex_error, num_str, dot_count, parsevars, result,
                   exception, first_error, built>>

\* any other character: make_tokens returns [], IllegalCharError
IllegalChar ==
    /\ pc = "make_tokens"
    /\ current_char # NoChar
    /\ ~IsBlank(current_char)
    /\ ~StartsNumber(current_char)
    /\ ~IsSingleChar(current_char)
    /\ LexerAdvance
    /\ LET e == IllegalCharError(ErrorStart(pos, pos'), pos',
                                   "'" \o current_char \o "'")
       IN /\ lex_error' = <<e>>
          /\ first_error' = IF first_error = None THEN <<e>> ELSE first_error
    /\ tokens' = <<>>
    /\ pc' = "lexed"
    /\ UNCHANGED <<text, num_str, dot_count, parsevars, result, exception,
                   built>>

\* the text is used up: make_tokens appends EOF and returns tokens, None
EndOfText ==
    /\ pc = "make_tokens"
    /\ current_char = NoChar
    /\ tokens' = Append(tokens, TokenAt(TT_EOF, pos))
    /\ lex_error' = None
    /\ pc' = "lexed"
    /\ UNCHANGED <<text, pos, current_char, num_str, dot_count, parsevars,
                   result, exception, first_error, built>>

(* ------------------------------------------------------------------ *)
(* AST nodes and ParserResult                                           *)
(* ------------------------------------------------------------------ *)

\* a node holds its tokens by reference: their positions in tokens
NumberNode(tok) == <<"NumberNode", tok>>

UnaryOpNode(op_tok, node) == <<"UnaryOpNode", op_tok, node>>

BinOpNode(left_node, op_tok, right_node) ==
    <<"BinOpNode", left_node, op_tok, right_node>>

\* bin_op's fold with the operands exchanged
FoldSwapped(left, op_tok, right) == BinOpNode(right, op_tok, left)

\* bin_op's fold: left = BinOpNode(left, op_tok, right)
Fold(left, op_tok, right) == BinOpNode(left, op_tok, right)

\* ParserResult(): node and error are None
ParserResult == [node |-> None, error |-> None]

\* self.error after self.register(res) of a ParserResult res
RegisterError(self_error, res) ==
    IF res.error # None THEN res.error ELSE self_error

\* what self.register(res) returns for a ParserResult res
RegisterNode(res) == res.node

(* ------------------------------------------------------------------ *)
(* Parser                                                               *)
(* ------------------------------------------------------------------ *)

\* a call of parse, expr, term or factor: where it is, its res, its locals
Frame(fn, at) ==
    [fn |-> fn, pc |-> at, node |-> None, error |-> None, tok |-> 0,
     left |-> None, op_tok |-> 0]

Top == stack[Len(stack)]

Caller == SubSeq(stack, 1, Len(stack) - 1)

\* term folds factor over MUL and DIV, expr folds term over PLUS and MINUS
Ops(fn) == IF fn = "expr" THEN {TT_PLUS, TT_MINUS} ELSE {TT_MUL, TT_DIV}

Func(fn) == IF fn = "expr" THEN "term" ELSE "factor"

CurrentType == tokens[current_tok].type

HasPos(t) == t.pos_start # None /\ t.pos_end # None

\* Parser.advance
ParserAdvance ==
    /\ tok_idx' = tok_idx + 1
    /\ current_tok' = IF tok_idx' < Len(tokens) THEN tok_idx' + 1
                      ELSE current_tok

\* the top call goes on at `at` with the fields of `with` changed
Continue(f) == stack' = Append(Caller, f)

\* the top call calls fn and waits at `at`
Call(f, fn) == stack' = Append(Append(Caller, f), Frame(fn, "start"))

\* the top call returns the ParserResult r
Return(r) == /\ stack' = Caller
             /\ ret' = r

\* an attribute of a token that has none is read: AttributeError ends run
Raise ==
    /\ pc' = "raised"
    /\ exception' = "AttributeError"
    /\ stack' = <<>>
    /\ UNCHANGED <<ret, first_error>>

\* InvalidSyntaxError(current_tok.pos_start, current_tok.pos_end, detail)
SyntaxErrorHere(detail) ==
    InvalidSyntaxError(tokens[current_tok].pos_start[1],
                       tokens[current_tok].pos_end[1], detail)

NoteError(e) ==
    first_error' = IF first_error = None THEN <<e>> ELSE first_error

\* run prints the tokens, constructs Parser(tokens) and calls parse
ParserInit ==
    /\ pc = "lexed"
    /\ tok_idx' = 0
    /\ IF 0 < Len(tokens)
       THEN /\ current_tok' = 1
            /\ stack' = <<Frame("parse", "start")>>
            /\ pc' = "parsing"
            /\ UNCHANGED exception
       ELSE \* return self.current_tok reads an attribute never set
            /\ pc' = "raised"
            /\ exception' = "AttributeError"
            /\ UNCHANGED <<current_tok, stack>>
    /\ UNCHANGED <<text, lexvars, ret, result, first_error, built>>

\* parse: res = self.expr()
ParseCall ==
    /\ pc = "parsing"
    /\ Top.fn = "parse" /\ Top.pc = "start"
    /\ Call([Top EXCEPT !.pc = "expr"], "expr")
    /\ UNCHANGED <<text, pc, lexvars, tok_idx, current_tok, ret, result,
                   exception, first_error, built>>

\* parse: the check for EOF after expr, and the return to run
ParseReturn ==
    /\ pc = "parsing"
    /\ Top.fn = "parse" /\ Top.pc = "expr"
    /\ IF ret.error = None /\ CurrentType # TT_EOF
       THEN IF HasPos(tokens[current_tok])
            THEN LET e == SyntaxErrorHere("Expected '+' '-' '*' or '/' ")
                 IN /\ Return([ret EXCEPT !.error = <<e>>])
                    /\ NoteError(e)
                    /\ pc' = "parsed"
                    /\ UNCHANGED exception
            ELSE Raise
       ELSE /\ Return(ret)
            /\ pc' = "parsed"
            /\ UNCHANGED <<exception, first_error>>
    /\ UNCHANGED <<text, lexvars, tok_idx, current_tok, result, built>>

\* run returns ast.node, ast.error
RunReturn ==
    /\ pc = "parsed"
    /\ result' = <<ret.node, ret.error>>
    /\ pc' = "returned"
    /\ UNCHANGED <<text, lexvars, parsevars, exception, first_error, built>>

\* bin_op: left = res.register(func()), the call
BinOpCall ==
    /\ pc = "parsing"
    /\ Top.fn \in {"expr", "term"} /\ Top.pc = "start"
    /\ Call([Top EXCEPT !.pc = "left"], Func(Top.fn))
    /\ UNCHANGED <<text, pc, lexvars, tok_idx, current_tok, ret, result,
                   exception, first_error, built>>

\* bin_op: left = res.register(func()), the registration
BinOpLeft ==
    /\ pc = "parsing"
    /\ Top.fn \in {"expr", "term"} /\ Top.pc = "left"
    /\ Continue([Top EXCEPT !.pc = "loop",
                            !.error = RegisterError(Top.error, ret),
                            !.left = RegisterNode(ret)])
    /\ UNCHANGED <<text, pc, lexvars, tok_idx, current_tok, ret, result,
                   exception, first_error, built>>

\* bin_op: the loop finds an operator, advances and calls func
BinOpLoop ==
    /\ pc = "parsing"
    /\ Top.fn \in {"expr", "term"} /\ Top.pc = "loop"
    /\ CurrentType \in Ops(Top.fn)
    /\ ParserAdvance
    /\ Call([Top EXCEPT !.pc = "right", !.op_tok = current_tok],
            Func(Top.fn))
    /\ UNCHANGED <<text, pc, lexvars, ret, result, exception, first_error,
                   built>>

\* bin_op: right = res.register(func()); left = BinOpNode(left, op, right)
BinOpRight ==
    /\ pc = "parsing"
    /\ Top.fn \in {"expr", "term"} /\ Top.pc = "right"
    /\ Continue([Top EXCEPT !.pc = "loop",
                            !.error = RegisterError(Top.error, ret),
                            !.left = Fold(Top.left, Top.op_tok,
                                          RegisterNode(ret))])
    /\ built' = built + 1
    /\ UNCHANGED <<text, pc, lexvars, tok_idx, current_tok, ret, result,
                   exception, first_error>>

\* bin_op: the loop ends, return res.success(left)
BinOpReturn ==
    /\ pc = "parsing"
    /\ Top.fn \in {"expr", "term"} /\ Top.pc = "loop"
    /\ CurrentType \notin Ops(Top.fn)
    /\ Return([node |-> Top.left, error |-> Top.error])
    /\ UNCHANGED <<text, pc, lexvars, tok_idx, current_tok, result,
                   exception, first_error, built>>

\* factor -> INT | FLOAT
FactorNumber ==
    /\ pc = "parsing"
    /\ Top.fn = "factor" /\ Top.pc = "start"
    /\ CurrentType \in {TT_INT, TT_FLOAT}
    /\ ParserAdvance
    /\ Return([node |-> NumberNode(current_tok), error |-> Top.error])
    /\ UNCHANGED <<text, pc, lexvars, result, exception, first_error, built>>

\* factor -> ( PLUS | MINUS ) factor, the call
FactorSign ==
    /\ pc = "parsing"
    /\ Top.fn = "factor" /\ Top.pc = "start"
    /\ CurrentType \in {TT_PLUS, TT_MINUS}
    /\ ParserAdvance
    /\ Call([Top EXCEPT !.pc = "unary", !.tok = current_tok], "factor")
    /\ UNCHANGED <<text, pc, lexvars, ret, result, exception, first_error,
                   built>>

\* factor -> ( PLUS | MINUS ) factor, after the call
FactorUnary ==
    /\ pc = "parsing"
    /\ Top.fn = "factor" /\ Top.pc = "unary"
    /\ LET error == RegisterError(Top.error, ret)
       IN IF error # None
          THEN /\ Return([node |-> Top.node, error |-> error])
               /\ UNCHANGED built
          ELSE /\ Return([node |-> UnaryOpNode(Top.tok, RegisterNode(ret)),
                          error |-> error])
               /\ built' = built + 1
    /\ UNCHANGED <<text, pc, lexvars, tok_idx, current_tok, result,
                   exception, first_error>>

\* factor -> LPAREN expr RPAREN, the call
FactorLParen ==
    /\ pc = "parsing"
    /\ Top.fn = "factor" /\ Top.pc = "start"
    /\ CurrentType = TT_LPAREN
    /\ ParserAdvance
    /\ Call([Top EXCEPT !.pc = "paren", !.tok = current_tok], "expr")
    /\ UNCHANGED <<text, pc, lexvars, ret, result, exception, first_error,
                   built>>

\* factor -> LPAREN expr RPAREN, after the call
FactorParen ==
    /\ pc = "parsing"
    /\ Top.fn = "factor" /\ Top.pc = "paren"
    /\ LET error == RegisterError(Top.error, ret)
       IN IF error # None
          THEN /\ Return([node |-> Top.node, error |-> error])
               /\ UNCHANGED <<pc, tok_idx, current_tok, exception,
                              first_error>>
          ELSE IF CurrentType = TT_RPAREN
          THEN /\ ParserAdvance
               /\ Return([node |-> RegisterNode(ret), error |-> error])
               /\ UNCHANGED <<pc, exception, first_error>>
          ELSE IF HasPos(tokens[current_tok])
          THEN LET e == SyntaxErrorHere("Expected ')' ")
               IN /\ Return([node |-> Top.node, error |-> <<e>>])
                  /\ NoteError(e)
                  /\ UNCHANGED <<pc, tok_idx, current_tok, exception>>
          ELSE /\ Raise
               /\ UNCHANGED <<tok_idx, current_tok>>
    /\ UNCHANGED <<text, lexvars, result, built>>

\* factor: no alternative starts with the current token
FactorFail ==
    /\ pc = "parsing"
    /\ Top.fn = "factor" /\ Top.pc = "start"
    /\ CurrentType \notin {TT_INT, TT_FLOAT, TT_PLUS, TT_MINUS, TT_LPAREN}
    /\ IF HasPos(tokens[current_tok])
       THEN LET e == SyntaxErrorHere("Expected int or float ")
            IN /\ Return([node |-> Top.node, error |-> <<e>>])
               /\ NoteError(e)
               /\ UNCHANGED <<pc, exception>>
       ELSE Raise
    /\ UNCHANGED <<text, lexvars, tok_idx, current_tok, result, built>>

(* ------------------------------------------------------------------ *)
(* Specification                                                        *)
(* ------------------------------------------------------------------ *)

Init ==
    /\ text \in Texts
    /\ pc = "run"
    /\ pos = Position(-1, 0, -1)
    /\ current_char = NoChar
    /\ tokens = <<>>
    /\ lex_error = None
    /\ num_str = <<>>
    /\ dot_count = 0
    /\ tok_idx = -1
    /\ current_tok = 0
    /\ stack = <<>>
    /\ ret = ParserResult
    /\ result = None
    /\ exception = ""
    /\ first_error = None
    /\ built = 0

Next ==
    \/ LexerInit
    \/ SkipBlank
    \/ MakeNumberCall
    \/ MakeNumberStep
    \/ MakeNumberReturn
    \/ SingleCharToken
    \/ IllegalChar
    \/ EndOfText
    \/ ParserInit
    \/ ParseCall
    \/ ParseReturn
    \/ RunReturn
    \/ BinOpCall
    \/ BinOpLeft
    \/ BinOpLoop
    \/ BinOpRight
    \/ BinOpReturn
    \/ FactorNumber
    \/ FactorSign
    \/ FactorUnary
    \/ FactorLParen
    \/ FactorParen
    \/ FactorFail

Spec == Init /\ [][Next]_vars

\* run is one thread of control: while a step is possible, one is taken
FairSpec == Spec /\ WF_vars(Next)

(* ------------------------------------------------------------------ *)
(* Properties                                                           *)
(* ------------------------------------------------------------------ *)

\* make_tokens has returned
LexReturned == pc \in {"lexed", "parsing", "parsed", "returned", "raised"}

\* run has ended, by a return or by an exception
RunEnded == pc \in {"returned", "raised"}

\* the characters section 8 of the specification lists as lexable
Listed == DIGITS \cup {".", "+", "-", "*", "/", "(", ")", " ", "\t"}

HasUnlisted(t) == \E i \in 1..Len(t) : t[i] \notin Listed

FirstUnlisted(t) ==
    CHOOSE i \in 1..Len(t) :
        t[i] \notin Listed /\ \A j \in 1..(i - 1) : t[j] \in Listed

\* the dot at i directly follows the digits of a number that has no dot yet
ContinuesNumber(t, i) ==
    \E j \in 1..(i - 1) :
        /\ \A k \in j..(i - 1) : t[k] \in DIGITS
        /\ j = 1 \/ t[j - 1] \notin DIGITS \cup {"."}

Rejected(t, i) ==
    t[i] \notin Listed \/ (t[i] = "." /\ ~ContinuesNumber(t, i))

FirstRejected(t) ==
    CHOOSE i \in 1..Len(t) :
        Rejected(t, i) /\ \A j \in 1..(i - 1) : ~Rejected(t, j)

\* the error is IllegalCharacter on the one character at position i of text
IllegalCharAt(i) ==
    /\ tokens = <<>>
    /\ lex_error # None
    /\ lex_error[1].error_name = "Illegal Character"
    /\ lex_error[1].pos_start.idx = i - 1
    /\ lex_error[1].pos_end.idx = i
    /\ lex_error[1].details = "'" \o text[i] \o "'"

\* C1, as the claim states it: whenever tokenizing reported an error, run
\* returns (None, that error), never constructs or invokes the parser and
\* does not end in an exception.
C1_LexErrorReturnedByRun ==
    lex_error # None =>
        /\ pc # "raised"
        /\ pc \notin {"parsing", "parsed"}
        /\ tok_idx = -1
        /\ pc = "returned" => result = <<None, lex_error>>

\* C2, as the claim states it: when the top-level expr ends without error on
\* a token that is not EOF, whatever its kind, parse returns InvalidSyntax
\* "Expected '+' '-' '*' or '/'" spanning that token's start and end.
C2_TrailingTokenIsSyntaxError ==
    [][(/\ pc = "parsing"
        /\ Top.fn = "parse"
        /\ Top.pc = "expr"
        /\ ret.error = None
        /\ CurrentType # TT_EOF)
       => (/\ pc' = "parsed"
           /\ ret'.error # None
           /\ ret'.error[1].error_name = "Invalid Syntax"
           /\ ret'.error[1].details = "Expected '+' '-' '*' or '/' "
           /\ <<ret'.error[1].pos_start>> = tokens[current_tok].pos_start
           /\ <<ret'.error[1].pos_end>> = tokens[current_tok].pos_end)]_vars

\* C3, as the claim states it: the error parse returns is the first error
\* constructed during the descent; a later one never replaces it.
C3_FirstErrorWins ==
    (pc = "parsed" /\ first_error # None) => ret.error = first_error

\* C4, as the claim states it: from the first error until parse returns
\* the token cursor does not advance and no UnaryOpNode or BinOpNode is
\* constructed.
C4_ErrorShortCircuits ==
    [][(pc = "parsing" /\ first_error # None)
       => (tok_idx' = tok_idx /\ built' = built)]_vars

\* C5, as the claim states it: parse and run never return both a node and
\* an error.
C5_NodeOrErrorNotBoth ==
    /\ pc = "parsed" => ~(ret.node # None /\ ret.error # None)
    /\ pc = "returned" => ~(result[1] # None /\ result[2] # None)

OnlyDigitsAndDots(t) == \A i \in 1..Len(t) : t[i] \in DIGITS \cup {"."}

Dots(t) == {i \in 1..Len(t) : t[i] = "."}

\* digit+ ( '.' digit* )?
IsDecimal(t) == t # <<>> /\ t[1] \in DIGITS /\ Cardinality(Dots(t)) <= 1

\* the dot that ends the lexing of a text of digits and dots: a leading dot,
\* else the second dot
BadDot(t) ==
    IF t[1] = "." THEN 1
    ELSE CHOOSE i \in Dots(t) : Cardinality({j \in Dots(t) : j < i}) = 1

OneTwoThree == <<"1", ".", "2", ".", "3">>

Kind(i) == tokens[i].type

RECURSIVE IsFactor(_, _), IsTerm(_, _), IsExpr(_, _)

\* factor -> INT | FLOAT | ( PLUS | MINUS ) factor | LPAREN expr RPAREN
IsFactor(lo, hi) ==
    /\ lo <= hi
    /\ \/ lo = hi /\ Kind(lo) \in {TT_INT, TT_FLOAT}
       \/ Kind(lo) \in {TT_PLUS, TT_MINUS} /\ IsFactor(lo + 1, hi)
       \/ Kind(lo) = TT_LPAREN /\ Kind(hi) = TT_RPAREN /\ IsExpr(lo + 1, hi - 1)

\* term -> factor | term ( MUL | DIV ) factor
IsTerm(lo, hi) ==
    \/ IsFactor(lo, hi)
    \/ \E k \in (lo + 1)..(hi - 1) :
          Kind(k) \in {TT_MUL, TT_DIV} /\ IsTerm(lo, k - 1) /\ IsFactor(k + 1, hi)

\* expr -> term | expr ( PLUS | MINUS ) term
IsExpr(lo, hi) ==
    \/ IsTerm(lo, hi)
    \/ \E k \in (lo + 1)..(hi - 1) :
          Kind(k) \in {TT_PLUS, TT_MINUS} /\ IsExpr(lo, k - 1) /\ IsTerm(k + 1, hi)

RECURSIVE FactorTree(_, _), TermTree(_, _), ExprTree(_, _)

FactorTree(lo, hi) ==
    IF lo = hi THEN <<"NumberNode", lo>>
    ELSE IF Kind(lo) \in {TT_PLUS, TT_MINUS}
    THEN <<"UnaryOpNode", lo, FactorTree(lo + 1, hi)>>
    ELSE ExprTree(lo + 1, hi - 1)

TermTree(lo, hi) ==
    IF IsFactor(lo, hi) THEN FactorTree(lo, hi)
    ELSE LET k == CHOOSE k \in (lo + 1)..(hi - 1) :
                     /\ Kind(k) \in {TT_MUL, TT_DIV}
                     /\ IsTerm(lo, k - 1)
                     /\ IsFactor(k + 1, hi)
         IN <<"BinOpNode", TermTree(lo, k - 1), k, FactorTree(k + 1, hi)>>

ExprTree(lo, hi) ==
    IF IsTerm(lo, hi) THEN TermTree(lo, hi)
    ELSE LET k == CHOOSE k \in (lo + 1)..(hi - 1) :
                     /\ Kind(k) \in {TT_PLUS, TT_MINUS}
                     /\ IsExpr(lo, k - 1)
                     /\ IsTerm(k + 1, hi)
         IN <<"BinOpNode", ExprTree(lo, k - 1), k, TermTree(k + 1, hi)>>

\* the tokens before EOF are a sentence of the grammar
IsSentence ==
    /\ LexReturned
    /\ lex_error = None
    /\ IsExpr(1, Len(tokens) - 1)

\* the trees section 8 of the specification gives, tokens by position
Num(i) == <<"NumberNode", i>>

ExampleTree(t) ==
    CASE t = <<"2", " ", "+", " ", "3", " ", "*", " ", "4">> ->
            <<"BinOpNode", Num(1), 2, <<"BinOpNode", Num(3), 4, Num(5)>>>>
      [] t = <<"8", " ", "-", " ", "3", " ", "-", " ", "2">> ->
            <<"BinOpNode", <<"BinOpNode", Num(1), 2, Num(3)>>, 4, Num(5)>>
      [] t = <<"(", "2", " ", "+", " ", "3", ")", " ", "*", " ", "4">> ->
            <<"BinOpNode", <<"BinOpNode", Num(2), 3, Num(4)>>, 6, Num(7)>>
      [] t = <<"-", "-", "5">> ->
            <<"UnaryOpNode", 1, <<"UnaryOpNode", 2, Num(3)>>>>

HasExampleTree(t) ==
    t \in {<<"2", " ", "+", " ", "3", " ", "*", " ", "4">>,
           <<"8", " ", "-", " ", "3", " ", "-", " ", "2">>,
           <<"(", "2", " ", "+", " ", "3", ")", " ", "*", " ", "4">>,
           <<"-", "-", "5">>}

\* C8: for every token sequence that is a sentence of the grammar followed
\* by EOF, parse raises nothing and returns no error and the tree of the
\* grammar: same-level operators fold left-deep, MUL and DIV nest beneath
\* PLUS and MINUS, a parenthesised expr is the operand itself and each
\* leading sign wraps one UnaryOpNode; the four example texts give the
\* trees the specification lists.
C8_SentenceParsesToItsTree ==
    IsSentence =>
        /\ pc # "raised"
        /\ pc \in {"parsed", "returned"} =>
              /\ ret.error = None
              /\ ret.node = ExprTree(1, Len(tokens) - 1)
              /\ HasExampleTree(text) => ret.node = ExampleTree(text)
        /\ pc = "returned" => result = <<ret.node, None>>

\* C8's case: "(2 + 3) * 4" has been parsed to a tree of two BinOpNodes
C8_Witness ==
    /\ pc = "returned"
    /\ IsSentence
    /\ text = <<"(", "2", " ", "+", " ", "3", ")", " ", "*", " ", "4">>
    /\ built = 2
    /\ result[1][1] = "BinOpNode"

\* C9: every invocation ends, by a return or by an exception; an iteration
\* of the scan loop and of the number loop that stays in the loop consumes
\* one character, and a call of make_number consumes at least one; an
\* iteration of bin_op's loop and a recursive call by factor consume one
\* token; the token cursor stays on a token, at most the last one, EOF.
C9_Terminates ==
    /\ <>RunEnded
    /\ [][/\ (pc = "make_tokens" /\ pc' = "make_tokens")
               => pos'.idx = pos.idx + 1
          /\ (pc = "make_number" /\ pc' = "make_number")
               => pos'.idx = pos.idx + 1 /\ Len(num_str') = Len(num_str) + 1
          /\ (pc = "make_number" /\ pc' = "make_tokens")
               => Len(num_str) >= 1
          /\ (/\ pc = "parsing" /\ pc' = "parsing"
              /\ Len(stack') > Len(stack)
              /\ Top.fn = "factor" \/ Top.pc = "loop")
               => tok_idx' = tok_idx + 1]_vars
    /\ [](pc \in {"parsing", "parsed", "returned"} =>
              /\ tok_idx + 1 = current_tok
              /\ current_tok <= Len(tokens)
              /\ tokens[Len(tokens)].type = TT_EOF
              /\ \A i \in 1..(Len(tokens) - 1) : tokens[i].type # TT_EOF)

\* C9's case: run has returned after blanks, numbers, a parenthesis and
\* two operators
C9_Witness ==
    /\ pc = "returned"
    /\ text = <<"(", "2", " ", "+", " ", "3", ")", " ", "*", " ", "4">>
    /\ tok_idx = 7

\* C10, as the claim states it: every token of a successful tokenization
\* carries a start and an end position; a number's span is the characters
\* scanned, a single-character token's end is its start advanced by one.
C10_EveryTokenHasPositions ==
    (LexReturned /\ lex_error = None) =>
        \A i \in 1..Len(tokens) :
            /\ tokens[i].pos_start # None
            /\ tokens[i].pos_end # None
            /\ tokens[i].type \notin {TT_INT, TT_FLOAT} =>
                  tokens[i].pos_end[1] =
                      PosAdvance(tokens[i].pos_start[1], NoChar)
            /\ tokens[i].type \in {TT_INT, TT_FLOAT} =>
                  /\ tokens[i].pos_end[1].idx > tokens[i].pos_start[1].idx
                  /\ \A k \in (tokens[i].pos_start[1].idx + 1)
                                ..tokens[i].pos_end[1].idx :
                        text[k] \in DIGITS \cup {"."}

====
